---------------------------- MODULE Spec2Model ----------------------------
(***************************************************************************)
(* Model of src/main.py: DividendLowVolStrategy, and of the daily_price    *)
(* store of src/scripts.                                                   *)
(*                                                                         *)
(*   get_etf_data           the frames the providers deliver               *)
(*   calculate_return_diff  the inner join of the two frames, the N-day    *)
(*                          returns, their difference, the latest signal   *)
(*   show_signal_statistics signal counts and the current run length       *)
(*   run_backtest           monthly checkpoints over the rows that carry   *)
(*                          a return diff; cash / shares state machine     *)
(*   save_to_database, merge_databases, rollback_last_update,              *)
(*   rollback_by_date       the writes and deletes on the daily_price      *)
(*                          tables                                         *)
(*                                                                         *)
(* Floating point numbers are modelled as exact rationals (num / den,      *)
(* den > 0, lowest terms) plus the value NaN; comparisons with NaN are     *)
(* false, arithmetic on NaN gives NaN, as in numpy / pandas.  Dates are    *)
(* day ordinals (1 = 1 January) of non-leap years.                         *)
(***************************************************************************)
EXTENDS Integers, Sequences, FiniteSets, TLC

(***************************************************************************)
(* Bounds of the model.                                                    *)
(***************************************************************************)
MaxPrice == 2       \* closing prices are drawn from 1..MaxPrice
MaxShort == 3       \* short aligned series have 0..MaxShort rows
MaxExtra == 0       \* long aligned series have up to 100 + MaxExtra rows
MaxPeriod == 2      \* return_period is drawn from 1..MaxPeriod (and 100)
MaxAmount == 1      \* initial_investment, monthly_investment in 0..MaxAmount
MaxMonths == 3      \* SpecPortfolio: the checkpoints span up to MaxMonths months
MaxRows == 2        \* SpecAlign: a provider's frame has 0..MaxRows rows
FlatMonths == 120   \* SpecFlat: the series has FlatMonths month-end rows

(***************************************************************************)
(* Program constants.                                                      *)
(***************************************************************************)
MinBacktestLen == 100               \* run_backtest: len(data_df) < 100
DefaultInitialInvestment == 10000   \* run_backtest: initial_investment=10000
DefaultMonthlyInvestment == 1000    \* run_backtest: monthly_investment=1000

(***************************************************************************)
(* Numbers: rationals and NaN.                                             *)
(***************************************************************************)
Abs(n) == IF n < 0 THEN -n ELSE n

RECURSIVE GCD(_, _)
GCD(a, b) == IF b = 0 THEN a ELSE GCD(b, a % b)

\* the rational n/d (d > 0) in lowest terms
Frac(n, d) ==
    LET g == GCD(Abs(n), d)
    IN  [nan |-> FALSE, num |-> n \div g, den |-> d \div g]

\* the integer n
Num(n) == [nan |-> FALSE, num |-> n, den |-> 1]
NaN == [nan |-> TRUE, num |-> 0, den |-> 1]
isna(x) == x.nan
notna(x) == ~x.nan

FAdd(a, b) == IF a.nan \/ b.nan THEN NaN
              ELSE Frac(a.num * b.den + b.num * a.den, a.den * b.den)
FSub(a, b) == IF a.nan \/ b.nan THEN NaN
              ELSE Frac(a.num * b.den - b.num * a.den, a.den * b.den)
FMul(a, b) == IF a.nan \/ b.nan THEN NaN
              ELSE Frac(a.num * b.num, a.den * b.den)
\* the divisor is a price or a ratio of prices here, never zero
FDiv(a, b) == IF a.nan \/ b.nan THEN NaN
              ELSE IF b.num > 0 THEN Frac(a.num * b.den, a.den * b.num)
              ELSE Frac(-(a.num * b.den), a.den * (-b.num))
FAbs(a) == IF a.nan THEN NaN ELSE Frac(Abs(a.num), a.den)
FLt(a, b) == ~a.nan /\ ~b.nan /\ a.num * b.den < b.num * a.den
FLeq(a, b) == ~a.nan /\ ~b.nan /\ a.num * b.den <= b.num * a.den
FGeq(a, b) == ~a.nan /\ ~b.nan /\ a.num * b.den >= b.num * a.den
FGt(a, b) == ~a.nan /\ ~b.nan /\ a.num * b.den > b.num * a.den
\* Python's min(a, b): b when b < a, else a
FMin(a, b) == IF FLt(b, a) THEN b ELSE a

(***************************************************************************)
(* Calendar: what pd.date_range(start, end, freq='M') enumerates.          *)
(***************************************************************************)
MonthLengths == <<31, 28, 31, 30, 31, 30, 31, 31, 30, 31, 30, 31>>

RECURSIVE SumTo(_, _)
SumTo(s, k) == IF k = 0 THEN 0 ELSE s[k] + SumTo(s, k - 1)

DaysInYear == SumTo(MonthLengths, Len(MonthLengths))
MonthEndsOfYear == {SumTo(MonthLengths, k) : k \in 1..Len(MonthLengths)}
IsMonthEnd(d) == (((d - 1) % DaysInYear) + 1) \in MonthEndsOfYear

\* index (1-based) of the calendar month that holds day d, counted from day 1
MonthOf(d) ==
    LET y == (d - 1) \div DaysInYear
        r == ((d - 1) % DaysInYear) + 1
    IN  y * Len(MonthLengths)
          + Cardinality({k \in 1..Len(MonthLengths) : SumTo(MonthLengths, k) < r}) + 1

\* the elements of S in ascending order: the k-th has k - 1 smaller ones
SortedSeq(S) ==
    [k \in 1..Cardinality(S) |->
        CHOOSE x \in S : Cardinality({y \in S : y < x}) = k - 1]

\* one date a week instead of one a month
date_range_weekly(start, end) == SortedSeq({d \in start..end : (d - start) % 7 = 0})

\* the month-end dates d with start <= d <= end, ascending
date_range(start, end) == SortedSeq({d \in start..end : IsMonthEnd(d)})

(***************************************************************************)
(* Input series.  A provider returns one row per trading day; weekends     *)
(* carry no row (generate_sample_data keeps dayofweek < 5).                *)
(***************************************************************************)
dayofweek(d, first) == (d + first) % 7

IsTradingDay(d, first) == dayofweek(d, first) < 5

\* the first n trading days from day start on, ascending
TradingDays(start, first, n) ==
    LET span == [k \in 1..(2 * n + 7) |-> start + k - 1]
    IN  SubSeq(SelectSeq(span, LAMBDA d : IsTradingDay(d, first)), 1, n)

Prices == 1..MaxPrice
\* a generated price series repeats a pattern: three prices for the ETF,
\* two for the benchmark
HlPatterns == Prices \X Prices \X Prices
BenchmarkPatterns == Prices \X Prices
PatAt(pat, i) == pat[((i - 1) % Len(pat)) + 1]

\* the aligned (inner-joined) series of n rows: dates strictly increasing,
\* both prices numeric and positive
AlignedSeries(n, start, first, hl, bm) ==
    LET days == TradingDays(start, first, n)
    IN  [i \in 1..n |-> [trade_date |-> days[i],
                         hl_close |-> Num(PatAt(hl, i)),
                         benchmark_close |-> Num(PatAt(bm, i))]]

StartDays == {30}
FirstWeekdays == {0}
Lens == (0..MaxShort) \cup ((MinBacktestLen - 1)..(MinBacktestLen + MaxExtra))
ReturnPeriods == (1..MaxPeriod) \cup {MinBacktestLen}
Amounts == 0..MaxAmount
\* (buy_threshold, sell_threshold); __init__ stores whatever it is given
ThresholdPairs == { <<Frac(-1, 2), Num(1)>>,
                    <<Num(0), Frac(1, 2)>>,
                    <<Frac(1, 2), Frac(-1, 2)>> }

(***************************************************************************)
(* Provider frames.  A row is (trade_date, close); a close cell is a       *)
(* float, text that is no number, or missing.                              *)
(***************************************************************************)
FloatCell(p) == [kind |-> "float", val |-> Num(p)]
TextCell == [kind |-> "str", val |-> NaN]
NoneCell == [kind |-> "none", val |-> NaN]

RawDates == {30, 31}
HlCells == {FloatCell(p) : p \in Prices} \cup {TextCell}
BenchmarkCells == {FloatCell(1), NoneCell}

\* the frames of up to MaxRows rows a provider may answer with
RawFrames(cells) ==
    UNION { [1..n -> [trade_date : RawDates, close : cells]] : n \in 0..MaxRows }

\* pd.to_numeric(cell, errors='coerce'): what is no number becomes NaN
to_numeric(c) == IF c.kind = "float" THEN c.val ELSE NaN

\* df.sort_values('trade_date'): ascending dates, rows of one date in their
\* given order
RECURSIVE sort_values(_)
sort_values(df) ==
    IF df = <<>> THEN <<>>
    ELSE LET dates == {df[i].trade_date : i \in 1..Len(df)}
             first == CHOOSE d \in dates : \A e \in dates : d <= e
         IN  SelectSeq(df, LAMBDA r : r.trade_date = first)
               \o sort_values(SelectSeq(df, LAMBDA r : r.trade_date # first))

\* get_etf_data answered by adata: the frame sorted by date, when it has
\* at least return_period rows
FromAdata(raw) == sort_values(raw)

\* get_extended_data answered by akshare: the close column made numeric,
\* the rows in the order given
FromAkshare(raw) ==
    [i \in 1..Len(raw) |->
        [trade_date |-> raw[i].trade_date,
         close |-> IF notna(to_numeric(raw[i].close)) THEN raw[i].close
                   ELSE NoneCell]]

\* generate_sample_data: one row per weekday from the start date on, the
\* same seeded positive prices at every call
SamplePattern == <<1, 2>>
SampleData ==
    LET days == TradingDays(30, 0, MinBacktestLen)
    IN  [i \in 1..MinBacktestLen |->
            [trade_date |-> days[i], close |-> FloatCell(PatAt(SamplePattern, i))]]

\* what a provider answers: an error, or a frame
Failed == [error |-> TRUE, rows |-> <<>>]
Answer(raw) == [error |-> FALSE, rows |-> raw]
Answers(cells) == {Failed} \cup {Answer(raw) : raw \in RawFrames(cells)}

\* one provider call and what came of it
Call(fund_code, provider, answer) ==
    [fund_code |-> fund_code, provider |-> provider, error |-> answer.error,
     rows |-> Len(answer.rows)]

\* generate_sample_data(start_date): the calls made, the frame returned
generate_sample_data(fund_code) ==
    [calls |-> <<Call(fund_code, "sample", Answer(SampleData))>>,
     df |-> SampleData]

\* akshare asked a second time before the sample data is generated
get_extended_data_retry(fund_code, ak) ==
    IF ak.error
    THEN LET sample == generate_sample_data(fund_code)
         IN  [calls |-> <<Call(fund_code, "akshare", ak),
                          Call(fund_code, "akshare", ak)>> \o sample.calls,
              df |-> sample.df]
    ELSE [calls |-> <<Call(fund_code, "akshare", ak)>>,
          df |-> FromAkshare(ak.rows)]

\* get_extended_data(fund_code, start_date), ak being akshare's answer
get_extended_data(fund_code, ak) ==
    IF ak.error
    THEN LET sample == generate_sample_data(fund_code)
         IN  [calls |-> <<Call(fund_code, "akshare", ak)>> \o sample.calls,
              df |-> sample.df]
    ELSE [calls |-> <<Call(fund_code, "akshare", ak)>>,
          df |-> FromAkshare(ak.rows)]

\* get_etf_data(fund_code), ad being adata's answer and ak akshare's
get_etf_data(fund_code, ad, ak, periods) ==
    IF ad.error \/ Len(ad.rows) < periods
    THEN LET extended == get_extended_data(fund_code, ak)
         IN  [calls |-> <<Call(fund_code, "adata", ad)>> \o extended.calls,
              df |-> extended.df]
    ELSE [calls |-> <<Call(fund_code, "adata", ad)>>,
          df |-> FromAdata(ad.rows)]

\* the ways one request can go; akshare only answers when it is asked
EtfRequests(fund_code, cells, periods) ==
    UNION { IF ad.error \/ Len(ad.rows) < periods
            THEN {get_etf_data(fund_code, ad, ak, periods) : ak \in Answers(cells)}
            ELSE {get_etf_data(fund_code, ad, Failed, periods)}
            : ad \in Answers(cells) }

(***************************************************************************)
(* calculate_return_diff.                                                  *)
(***************************************************************************)
\* the close column made numeric, the rows without a number dropped
Prepare(df) ==
    SelectSeq([i \in 1..Len(df) |-> [trade_date |-> df[i].trade_date,
                                     close |-> to_numeric(df[i].close)]],
              LAMBDA r : notna(r.close))

\* the sequence of the pairs <<i, j>> of a set, by i and then by j
PairsInOrder(pairs) ==
    LET rank == [p \in pairs |->
                    Cardinality({q \in pairs : \/ q[1] < p[1]
                                               \/ q[1] = p[1] /\ q[2] < p[2]})]
    IN  [k \in 1..Cardinality(pairs) |-> CHOOSE p \in pairs : rank[p] = k - 1]

\* the pairs <<i, j>> of a row i of the left frame and a row j of the right
\* frame of the same date
Matches(left, right) ==
    {p \in (1..Len(left)) \X (1..Len(right)) :
        left[p[1]].trade_date = right[p[2]].trade_date}

\* how='left': every row of the left frame, matched or not (j = 0 stands for
\* the missing right row)
merge_left(left, right) ==
    LET matches == Matches(left, right)
        alone == {<<i, 0>> : i \in {i \in 1..Len(left) :
                                       \A p \in matches : p[1] # i}}
        order == PairsInOrder(matches \cup alone)
    IN  [k \in 1..Len(order) |->
            LET l == left[order[k][1]]
            IN  [trade_date |-> l.trade_date, hl_close |-> l.close,
                 benchmark_close |-> IF order[k][2] = 0 THEN NaN
                                     ELSE right[order[k][2]].close]]

\* pd.merge(left, right, on='trade_date', how='inner'): the pairs of rows of
\* equal date, in the order of the left frame and, for one left row, in the
\* order of the right frame
merge(left, right) ==
    LET order == PairsInOrder(Matches(left, right))
    IN  [k \in 1..Len(order) |->
            [trade_date |-> left[order[k][1]].trade_date,
             hl_close |-> left[order[k][1]].close,
             benchmark_close |-> right[order[k][2]].close]]

Column(df, name) == [i \in 1..Len(df) |-> df[i][name]]

\* shift by one row too few
shift_short(col, periods) ==
    LET n == Len(col)
    IN  [i \in 1..n |-> IF i - (periods - 1) >= 1 /\ i - (periods - 1) <= n
                        THEN col[i - (periods - 1)] ELSE NaN]

\* Series.shift(periods): row i takes the value of row i - periods
shift(col, periods) ==
    LET n == Len(col)
    IN  [i \in 1..n |-> IF i - periods >= 1 /\ i - periods <= n
                        THEN col[i - periods] ELSE NaN]

\* Series.pct_change(periods) = col / col.shift(periods) - 1
pct_change(col, periods) ==
    LET prev == shift(col, periods)
        n == Len(col)
    IN  [i \in 1..n |-> FSub(FDiv(col[i], prev[i]), Num(1))]

\* merged_df with the three computed columns
WithReturns(df, periods) ==
    LET hl == pct_change(Column(df, "hl_close"), periods)
        bm == pct_change(Column(df, "benchmark_close"), periods)
        n == Len(df)
    IN  [i \in 1..n |->
            LET hl_return_nd == hl[i]
                benchmark_return_nd == bm[i]
            IN  [trade_date |-> df[i].trade_date,
                 hl_close |-> df[i].hl_close,
                 benchmark_close |-> df[i].benchmark_close,
                 hl_return_nd |-> hl_return_nd,
                 benchmark_return_nd |-> benchmark_return_nd,
                 return_diff |-> FSub(hl_return_nd, benchmark_return_nd)]]

\* only an empty frame counts as too short
InsufficientData_empty(df, periods) == Len(df) = 0

\* len(merged_df) < self.return_period
InsufficientData(df, periods) == Len(df) < periods

\* the diff that is classified: the last row's, else the row before it, else 0
LatestDiff(df) ==
    LET last == df[Len(df)].return_diff
    IN  IF isna(last)
        THEN IF Len(df) > 1 THEN df[Len(df) - 1].return_diff ELSE Num(0)
        ELSE last

\* the if / elif / else over latest_diff
LatestSignal(diff, buy, sell) ==
    IF FLeq(diff, buy) THEN "BUY"
    ELSE IF FGeq(diff, sell) THEN "SELL"
    ELSE "HOLD"

(***************************************************************************)
(* run_backtest.                                                           *)
(***************************************************************************)
\* the length test lets 99 rows through
RefusesBacktest_short(returned, df) == ~returned \/ Len(df) < MinBacktestLen - 1

\* data_df is None or len(data_df) < 100
RefusesBacktest(returned, df) == ~returned \/ Len(df) < MinBacktestLen

\* data_df[data_df['return_diff'].notna()]
ValidData(df) == SelectSeq(df, LAMBDA r : notna(r.return_diff))

\* date in df['trade_date'].values
HasDate(df, date) == \E i \in 1..Len(df) : df[i].trade_date = date

Min(S) == CHOOSE x \in S : \A y \in S : x <= y

\* df[df['trade_date'] == date].iloc[0]: the first row of that date
RowAt(df, date) == df[Min({i \in 1..Len(df) : df[i].trade_date = date})]

\* the two actions exchanged
CheckpointSignal_swapped(diff, buy, sell) ==
    IF FLeq(diff, buy) THEN "SELL"
    ELSE IF FGeq(diff, sell) THEN "BUY"
    ELSE "HOLD"

\* strict comparisons at the thresholds
CheckpointSignal_strict(diff, buy, sell) ==
    IF FLt(diff, buy) THEN "BUY"
    ELSE IF FGt(diff, sell) THEN "SELL"
    ELSE "HOLD"

\* the if / elif / else over return_diff: (investment_amount, signal)
CheckpointSignal(diff, buy, sell) ==
    IF FLeq(diff, buy) THEN "BUY"
    ELSE IF FGeq(diff, sell) THEN "SELL"
    ELSE "HOLD"

\* a BUY that is not doubled
InvestmentAmount_single(sig, monthly) ==
    IF sig = "SELL" THEN FSub(Num(0), monthly) ELSE monthly

InvestmentAmount(sig, monthly) ==
    IF sig = "BUY" THEN FMul(monthly, Num(2))
    ELSE IF sig = "SELL" THEN FSub(Num(0), monthly)
    ELSE monthly

\* a sale that is not capped at the holdings
SharesToSell_uncapped(amount, price, held) == FDiv(FAbs(amount), price)

\* shares_to_sell = min(abs(investment_amount) / current_price, shares)
SharesToSell(amount, price, held) == FMin(FDiv(FAbs(amount), price), held)

\* a purchase paid from outside the portfolio: cash stays as it is
Trade_contributed(c, s, amount, price) ==
    IF FGt(amount, Num(0))
    THEN [cash |-> c, shares |-> FAdd(s, FDiv(amount, price))]
    ELSE LET sold == SharesToSell(amount, price, s)
         IN  [cash |-> FAdd(c, FMul(sold, price)), shares |-> FSub(s, sold)]

\* the trade: (cash, shares) after it
Trade(c, s, amount, price) ==
    IF FGt(amount, Num(0))
    THEN [cash |-> FSub(c, amount), shares |-> FAdd(s, FDiv(amount, price))]
    ELSE LET sold == SharesToSell(amount, price, s)
         IN  [cash |-> FAdd(c, FMul(sold, price)), shares |-> FSub(s, sold)]

\* the benchmark scaled from the last row instead of the first
BenchmarkValue_last(initial, row, valid) ==
    FMul(initial, FDiv(row.benchmark_close, valid[Len(valid)].benchmark_close))

BenchmarkValue(initial, row, valid) ==
    FMul(initial, FDiv(row.benchmark_close, valid[1].benchmark_close))

(***************************************************************************)
(* show_signal_statistics.                                                 *)
(***************************************************************************)
\* the signal column: HOLD, overwritten by BUY where diff <= buy_threshold,
\* then by SELL where diff >= sell_threshold
StatSignal(diff, buy, sell) ==
    IF FGeq(diff, sell) THEN "SELL"
    ELSE IF FLeq(diff, buy) THEN "BUY"
    ELSE "HOLD"

SignalColumn(valid, buy, sell) ==
    [i \in 1..Len(valid) |-> StatSignal(valid[i].return_diff, buy, sell)]

\* Series.value_counts(): the classes that occur, each with its count
value_counts(col) ==
    [c \in {col[i] : i \in 1..Len(col)} |->
        Cardinality({i \in 1..Len(col) : col[i] = c})]

\* a count that does not stop at the first other class
ConsecutiveDays_all(col, current) ==
    Cardinality({i \in 1..Len(col) : col[i] = current})

\* the loop from the last row back: one more day for every row whose signal
\* is the current one, break at the first row whose signal is not
ConsecutiveDays(col, current) ==
    LET n == Len(col)
        others == {i \in 1..n : col[i] # current}
    IN  IF others = {} THEN n
        ELSE n - (CHOOSE i \in others : \A j \in others : j <= i)

(***************************************************************************)
(* State.                                                                  *)
(***************************************************************************)
VARIABLES
    return_period, buy_threshold, sell_threshold,   \* the strategy's fields
    merged_df,             \* the aligned series; gains the return columns
    pc,                    \* where the run is
    ret,                   \* what calculate_return_diff returned
    initial_investment, monthly_investment,         \* run_backtest's arguments
    valid_data,            \* the rows of data_df that carry a return diff
    investment_dates,      \* the month-end dates still to visit
    cash, shares,
    portfolio_value, benchmark_value, signals,
    checkpoint_dates,      \* the dates whose checkpoint was executed
    bt_ret,                \* how run_backtest ended
    history,               \* the finished runs of run_backtest: arguments, results
    hl_df, benchmark_df,   \* the frames get_etf_data delivered
    calls,                 \* the provider calls made, in order
    stats,                 \* what show_signal_statistics reported
    main_db, update_db     \* the daily_price tables of the two databases

vars == <<return_period, buy_threshold, sell_threshold, merged_df, pc, ret,
          initial_investment, monthly_investment, valid_data, investment_dates, cash,
          shares, portfolio_value, benchmark_value, signals,
          checkpoint_dates, bt_ret, history, hl_df, benchmark_df, calls,
          stats, main_db, update_db>>

fetchVars == <<hl_df, benchmark_df, calls>>
storeVars == <<main_db, update_db>>

\* an optional number: <<>> is None
None == <<>>
Some(x) == <<x>>

NoReturn == [data_df |-> FALSE, signal |-> "None", reason |-> "None",
             color |-> "None", latest_diff |-> None]

NoStats == [outcome |-> "not_called", signal |-> <<>>, counts |-> <<>>,
            current_signal |-> "None", consecutive_days |-> 0]

\* the parts of the state a strategy run starts without
Untouched ==
    /\ history = <<>>
    /\ hl_df = <<>>
    /\ benchmark_df = <<>>
    /\ calls = <<>>
    /\ stats = NoStats
    /\ main_db = {}
    /\ update_db = {}

Init ==
    /\ Untouched
    /\ \E n \in Lens, start \in StartDays, first \in FirstWeekdays,
          hl \in HlPatterns, bm \in BenchmarkPatterns :
          merged_df = AlignedSeries(n, start, first, hl, bm)
    /\ return_period \in ReturnPeriods
    /\ \E t \in ThresholdPairs : buy_threshold = t[1] /\ sell_threshold = t[2]
    /\ pc = "start"
    /\ ret = NoReturn
    /\ initial_investment = Num(0)
    /\ monthly_investment = Num(0)
    /\ valid_data = <<>>
    /\ investment_dates = <<>>
    /\ cash = Num(0)
    /\ shares = Num(0)
    /\ portfolio_value = <<>>
    /\ benchmark_value = <<>>
    /\ signals = <<>>
    /\ checkpoint_dates = <<>>
    /\ bt_ret = "not_called"

backtestVars == <<initial_investment, monthly_investment, valid_data,
                  investment_dates,
                  cash, shares, portfolio_value, benchmark_value, signals,
                  checkpoint_dates, bt_ret>>
strategyVars == <<return_period, buy_threshold, sell_threshold>>

\* calculate_return_diff on the aligned series
CalculateReturnDiff ==
    /\ pc = "start"
    /\ IF InsufficientData(merged_df, return_period)
       THEN /\ ret' = NoReturn
            /\ UNCHANGED merged_df
       ELSE LET df == WithReturns(merged_df, return_period)
                diff == LatestDiff(df)
                sig == LatestSignal(diff, buy_threshold, sell_threshold)
            IN  /\ merged_df' = df
                /\ ret' = [data_df |-> TRUE, signal |-> sig, reason |-> sig,
                           color |-> sig, latest_diff |-> Some(diff)]
    /\ pc' = "analysed"
    /\ UNCHANGED <<strategyVars, backtestVars, history, fetchVars, stats, storeVars>>

\* run_backtest is called on what calculate_return_diff returned, directly
\* or, as run_strategy does, after show_signal_statistics has returned
AtBacktest ==
    \/ pc = "analysed"
    \/ pc = "reported" /\ stats.outcome = "printed"

\* run_backtest(data_df, ...): data_df is None or too short
RunBacktestRefuse ==
    /\ AtBacktest
    /\ RefusesBacktest(ret.data_df, merged_df)
    /\ bt_ret' = "None"
    /\ pc' = "done"
    /\ UNCHANGED <<strategyVars, merged_df, ret, initial_investment,
                   monthly_investment, valid_data, investment_dates, cash,
                   shares, portfolio_value, benchmark_value, signals,
                   checkpoint_dates, history, fetchVars, stats, storeVars>>

\* run_backtest up to the loop: valid_data, the portfolio, the month-end dates;
\* valid_data.iloc[0] raises IndexError when no row has a diff.  The call
\* passes any initial_investment and the default monthly_investment
\* (SpecPortfolio varies both).
RunBacktestStart ==
    /\ AtBacktest
    /\ ~RefusesBacktest(ret.data_df, merged_df)
    /\ \E initial \in Amounts \cup {DefaultInitialInvestment} :
          /\ initial_investment' = Num(initial)
          /\ cash' = Num(initial)
    /\ monthly_investment' = Num(DefaultMonthlyInvestment)
    /\ shares' = Num(0)
    /\ portfolio_value' = <<>>
    /\ benchmark_value' = <<>>
    /\ signals' = <<>>
    /\ valid_data' = ValidData(merged_df)
    /\ IF Len(valid_data') = 0
       THEN /\ pc' = "done"
            /\ bt_ret' = "IndexError"
            /\ UNCHANGED investment_dates
       ELSE /\ pc' = "loop"
            /\ investment_dates' =
                  date_range(valid_data'[1].trade_date,
                             valid_data'[Len(valid_data')].trade_date)
            /\ UNCHANGED bt_ret
    /\ checkpoint_dates' = <<>>
    /\ UNCHANGED <<strategyVars, merged_df, ret, history, fetchVars, stats,
                   storeVars>>

\* a loop iteration whose date is not a date of valid_data: continue
LoopSkip ==
    /\ pc = "loop"
    /\ investment_dates # <<>>
    /\ ~HasDate(valid_data, Head(investment_dates))
    /\ investment_dates' = Tail(investment_dates)
    /\ UNCHANGED <<strategyVars, merged_df, pc, ret, initial_investment,
                   monthly_investment, valid_data, cash, shares, portfolio_value,
                   benchmark_value, signals, checkpoint_dates, bt_ret,
                   history, fetchVars, stats, storeVars>>

\* a loop iteration whose date is a date of valid_data: the checkpoint
LoopCheckpoint ==
    /\ pc = "loop"
    /\ investment_dates # <<>>
    /\ HasDate(valid_data, Head(investment_dates))
    /\ LET date == Head(investment_dates)
           current_data == RowAt(valid_data, date)
           current_price == current_data.hl_close
           signal == CheckpointSignal(current_data.return_diff,
                                      buy_threshold, sell_threshold)
           investment_amount == InvestmentAmount(signal, monthly_investment)
           after == Trade(cash, shares, investment_amount, current_price)
           current_value == FAdd(after.cash, FMul(after.shares, current_price))
       IN  /\ cash' = after.cash
           /\ shares' = after.shares
           /\ portfolio_value' = Append(portfolio_value, current_value)
           /\ benchmark_value' = Append(benchmark_value,
                    BenchmarkValue(initial_investment, current_data, valid_data))
           /\ signals' = Append(signals, signal)
           /\ checkpoint_dates' = Append(checkpoint_dates, date)
    /\ investment_dates' = Tail(investment_dates)
    /\ UNCHANGED <<strategyVars, merged_df, pc, ret, initial_investment,
                   monthly_investment, valid_data, bt_ret, history, fetchVars,
                   stats, storeVars>>

\* the loop is over: return portfolio_value, benchmark_value, signals;
\* history keeps what the caller passed and received
LoopReturn ==
    /\ pc = "loop"
    /\ investment_dates = <<>>
    /\ pc' = "done"
    /\ bt_ret' = "lists"
    /\ history' = Append(history,
                         [buy_threshold |-> buy_threshold,
                          sell_threshold |-> sell_threshold,
                          initial_investment |-> initial_investment,
                          monthly_investment |-> monthly_investment,
                          data_df |-> merged_df,
                          portfolio_value |-> portfolio_value,
                          benchmark_value |-> benchmark_value,
                          signals |-> signals])
    /\ UNCHANGED <<strategyVars, merged_df, ret, initial_investment,
                   monthly_investment, valid_data, investment_dates, cash,
                   shares, portfolio_value, benchmark_value, signals,
                   checkpoint_dates, fetchVars, stats, storeVars>>

\* show_signal_statistics(data_df); valid_data.iloc[-1] raises IndexError
\* when no row has a diff
ShowSignalStatistics ==
    /\ pc = "analysed"
    /\ ret.data_df
    /\ LET valid == ValidData(merged_df)
           col == SignalColumn(valid, buy_threshold, sell_threshold)
           signal_counts == value_counts(col)
       IN  IF Len(valid) = 0
           THEN stats' = [outcome |-> "IndexError", signal |-> col,
                          counts |-> signal_counts,
                          current_signal |-> "None", consecutive_days |-> 0]
           ELSE stats' = [outcome |-> "printed", signal |-> col,
                          counts |-> signal_counts,
                          current_signal |-> col[Len(col)],
                          consecutive_days |->
                              ConsecutiveDays(col, col[Len(col)])]
    /\ pc' = "reported"
    /\ UNCHANGED <<strategyVars, merged_df, ret, backtestVars, history,
                   fetchVars, storeVars>>

Next ==
    \/ CalculateReturnDiff
    \/ RunBacktestRefuse
    \/ RunBacktestStart
    \/ LoopSkip
    \/ LoopCheckpoint
    \/ LoopReturn

Spec == Init /\ [][Next]_vars

(***************************************************************************)
(* SpecStatistics: calculate_return_diff, then show_signal_statistics on   *)
(* the series it returned.                                                 *)
(***************************************************************************)
StatisticsNext ==
    \/ CalculateReturnDiff
    \/ ShowSignalStatistics

SpecStatistics == Init /\ [][StatisticsNext]_vars

(***************************************************************************)
(* SpecStrategy: run_strategy: calculate_return_diff, the statistics, the  *)
(* backtest.                                                               *)
(***************************************************************************)
StrategyNext ==
    \/ CalculateReturnDiff
    \/ ShowSignalStatistics
    \/ RunBacktestRefuse
    \/ RunBacktestStart
    \/ LoopSkip
    \/ LoopCheckpoint
    \/ LoopReturn

SpecStrategy == Init /\ [][StrategyNext]_vars

(***************************************************************************)
(* SpecPortfolio: the loop of run_backtest over arbitrary checkpoint data. *)
(* The loop reads valid_data only at month-end dates, so the state holds   *)
(* just those rows of a series that passed the guard of run_backtest: one  *)
(* row per month-end present in the data, with any price and any diff.     *)
(***************************************************************************)
DiffSamples == {Frac(-1, 2), Num(0), Num(1)}

MonthEnd(m) == SumTo(MonthLengths, m)

CheckpointRows(k, present, hl, d) ==
    SelectSeq([m \in 1..k |->
                  [trade_date |-> MonthEnd(m),
                   hl_close |-> Num(hl[m]),
                   benchmark_close |-> Num(1),
                   hl_return_nd |-> d[m],
                   benchmark_return_nd |-> Num(0),
                   return_diff |-> d[m]]],
              LAMBDA r : \E m \in present : r.trade_date = MonthEnd(m))

PortfolioInit ==
    /\ Untouched
    /\ \E k \in 1..MaxMonths, present \in SUBSET (1..MaxMonths),
          hl \in [1..MaxMonths -> Prices], d \in [1..MaxMonths -> DiffSamples] :
          /\ 1 \in present /\ k \in present /\ present \subseteq 1..k
          /\ \A m \in (1..MaxMonths) \ present : hl[m] = 1 /\ d[m] = Num(0)
          /\ merged_df = CheckpointRows(k, present, hl, d)
    /\ return_period = 1
    /\ \E t \in ThresholdPairs : buy_threshold = t[1] /\ sell_threshold = t[2]
    /\ pc = "loop"
    /\ ret = [data_df |-> TRUE,
              signal |-> LatestSignal(LatestDiff(merged_df), buy_threshold,
                                      sell_threshold),
              reason |-> LatestSignal(LatestDiff(merged_df), buy_threshold,
                                      sell_threshold),
              color |-> LatestSignal(LatestDiff(merged_df), buy_threshold,
                                     sell_threshold),
              latest_diff |-> Some(LatestDiff(merged_df))]
    /\ \E initial \in Amounts, monthly \in Amounts :
          /\ initial_investment = Num(initial)
          /\ monthly_investment = Num(monthly)
          /\ cash = Num(initial)
    /\ shares = Num(0)
    /\ portfolio_value = <<>>
    /\ benchmark_value = <<>>
    /\ signals = <<>>
    /\ checkpoint_dates = <<>>
    /\ valid_data = ValidData(merged_df)
    /\ investment_dates =
          date_range(valid_data[1].trade_date, valid_data[Len(valid_data)].trade_date)
    /\ bt_ret = "not_called"

PortfolioNext ==
    \/ LoopSkip
    \/ LoopCheckpoint
    \/ LoopReturn

SpecPortfolio == PortfolioInit /\ [][PortfolioNext]_vars

(***************************************************************************)
(* SpecAlign: the run from the providers' answers on.                      *)
(***************************************************************************)
AlignInit ==
    /\ history = <<>>
    /\ hl_df = <<>>
    /\ benchmark_df = <<>>
    /\ calls = <<>>
    /\ stats = NoStats
    /\ main_db = {}
    /\ update_db = {}
    /\ merged_df = <<>>
    /\ return_period \in 1..MaxPeriod
    /\ buy_threshold = Frac(-1, 2)
    /\ sell_threshold = Num(1)
    /\ pc = "fetch"
    /\ ret = NoReturn
    /\ initial_investment = Num(0)
    /\ monthly_investment = Num(0)
    /\ valid_data = <<>>
    /\ investment_dates = <<>>
    /\ cash = Num(0)
    /\ shares = Num(0)
    /\ portfolio_value = <<>>
    /\ benchmark_value = <<>>
    /\ signals = <<>>
    /\ checkpoint_dates = <<>>
    /\ bt_ret = "not_called"

\* the two calls of get_etf_data
GetEtfData ==
    /\ pc = "fetch"
    /\ LET hl == EtfRequests("515450", HlCells, return_period)
           benchmark == EtfRequests("510210", BenchmarkCells, return_period)
       IN  \E h \in hl, b \in benchmark :
              /\ hl_df' = h.df
              /\ benchmark_df' = b.df
              /\ calls' = h.calls \o b.calls
    /\ pc' = "merge"
    /\ UNCHANGED <<strategyVars, merged_df, ret, backtestVars, history, stats,
                   storeVars>>

\* calculate_return_diff up to the merge
MergeData ==
    /\ pc = "merge"
    /\ merged_df' = merge(Prepare(hl_df), Prepare(benchmark_df))
    /\ pc' = "start"
    /\ UNCHANGED <<strategyVars, ret, backtestVars, history, fetchVars, stats,
                   storeVars>>

AlignNext ==
    \/ GetEtfData
    \/ MergeData
    \/ CalculateReturnDiff
    \/ RunBacktestRefuse
    \/ RunBacktestStart
    \/ LoopSkip
    \/ LoopCheckpoint
    \/ LoopReturn

SpecAlign == AlignInit /\ [][AlignNext]_vars

(***************************************************************************)
(* SpecStore: the daily_price tables.  A table is a set of rows; its       *)
(* primary key is (code, date).  update_db is the database the collector   *)
(* writes, main_db the one the merge and rollback scripts work on.  The    *)
(* price columns of a row are one field here.                              *)
(***************************************************************************)
Codes == {"000001", "600000"}
StoreDates == {1, 2}
Records == [code : Codes, date : StoreDates, close : Prices]

\* INSERT OR REPLACE INTO daily_price: the row of the same key goes, the
\* new row comes
InsertOrReplace(table, record) ==
    {r \in table : ~(r.code = record.code /\ r.date = record.date)}
       \cup {record}

\* the records of data inserted one after the other
RECURSIVE InsertAll(_, _)
InsertAll(table, data) ==
    IF data = <<>> THEN table
    ELSE InsertAll(InsertOrReplace(table, Head(data)), Tail(data))

\* INSERT OR REPLACE INTO main.daily_price SELECT * FROM update_db.daily_price
RECURSIVE InsertSelect(_, _)
InsertSelect(table, rows) ==
    IF rows = {} THEN table
    ELSE LET r == CHOOSE x \in rows : TRUE
         IN  InsertSelect(InsertOrReplace(table, r), rows \ {r})

\* DELETE FROM daily_price WHERE date = ?
DeleteDate(table, date) == {r \in table : r.date # date}

runVars == <<strategyVars, merged_df, pc, ret, backtestVars, history,
             fetchVars, stats>>

StoreInit ==
    /\ Untouched
    /\ merged_df = <<>>
    /\ return_period = 1
    /\ buy_threshold = Frac(-1, 100)
    /\ sell_threshold = Frac(1, 10)
    /\ pc = "idle"
    /\ ret = NoReturn
    /\ initial_investment = Num(0)
    /\ monthly_investment = Num(0)
    /\ valid_data = <<>>
    /\ investment_dates = <<>>
    /\ cash = Num(0)
    /\ shares = Num(0)
    /\ portfolio_value = <<>>
    /\ benchmark_value = <<>>
    /\ signals = <<>>
    /\ checkpoint_dates = <<>>
    /\ bt_ret = "not_called"

\* save_to_database(data, db_path) on the update database; no data, no write
save_to_database ==
    /\ \E n \in 0..MaxRows : \E data \in [1..n -> Records] :
          update_db' = InsertAll(update_db, data)
    /\ UNCHANGED <<main_db, runVars>>

\* merge_databases(main_db_path, update_db_path)
merge_databases ==
    /\ main_db' = InsertSelect(main_db, update_db)
    /\ UNCHANGED <<update_db, runVars>>

\* rollback_last_update(main_db_path, update_db_path): the rows of the
\* latest date of the update database leave the main database
rollback_last_update ==
    /\ IF update_db = {}
       THEN UNCHANGED main_db
       ELSE LET dates == {r.date : r \in update_db}
                latest_date == CHOOSE d \in dates : \A e \in dates : e <= d
            IN  main_db' = DeleteDate(main_db, latest_date)
    /\ UNCHANGED <<update_db, runVars>>

\* rollback_by_date(main_db_path, target_date)
rollback_by_date ==
    /\ \E target_date \in StoreDates :
          IF {r \in main_db : r.date = target_date} = {}
          THEN UNCHANGED main_db
          ELSE main_db' = DeleteDate(main_db, target_date)
    /\ UNCHANGED <<update_db, runVars>>

StoreNext ==
    \/ save_to_database
    \/ merge_databases
    \/ rollback_last_update
    \/ rollback_by_date

SpecStore == StoreInit /\ [][StoreNext]_vars

(***************************************************************************)
(* SpecFlat: run_backtest with its default amounts and the default         *)
(* thresholds on a series of FlatMonths rows, one per month end, every     *)
(* price 1 and every diff 0.                                               *)
(***************************************************************************)
\* the m-th month end, over the years
MonthEndOfYears(m) ==
    ((m - 1) \div Len(MonthLengths)) * DaysInYear
       + SumTo(MonthLengths, ((m - 1) % Len(MonthLengths)) + 1)

FlatSeries ==
    [m \in 1..FlatMonths |->
        [trade_date |-> MonthEndOfYears(m),
         hl_close |-> Num(1),
         benchmark_close |-> Num(1),
         hl_return_nd |-> Num(0),
         benchmark_return_nd |-> Num(0),
         return_diff |-> Num(0)]]

FlatInit ==
    /\ Untouched
    /\ merged_df = FlatSeries
    /\ return_period = 1
    /\ buy_threshold = Frac(-1, 100)
    /\ sell_threshold = Frac(1, 10)
    /\ pc = "analysed"
    /\ ret = [data_df |-> TRUE, signal |-> "HOLD", reason |-> "HOLD",
              color |-> "HOLD", latest_diff |-> Some(Num(0))]
    /\ initial_investment = Num(0)
    /\ monthly_investment = Num(0)
    /\ valid_data = <<>>
    /\ investment_dates = <<>>
    /\ cash = Num(0)
    /\ shares = Num(0)
    /\ portfolio_value = <<>>
    /\ benchmark_value = <<>>
    /\ signals = <<>>
    /\ checkpoint_dates = <<>>
    /\ bt_ret = "not_called"

FlatNext ==
    \/ RunBacktestStart
    \/ LoopCheckpoint
    \/ LoopReturn

SpecFlat == FlatInit /\ [][FlatNext]_vars

(***************************************************************************)
(* SpecRerun: run_backtest called three times on one strategy object and   *)
(* one series: a first run, a run after the caller changed the parameters  *)
(* and the amounts at will, and a run with the thresholds and the amounts  *)
(* of the first run again.  The series of SpecRerun are those of           *)
(* SpecPortfolio whose price and diff follow the calendar month.           *)
(***************************************************************************)
MonthlyDiff(date) ==
    LET m == MonthOf(date) % 3
    IN  IF m = 1 THEN Frac(-1, 2) ELSE IF m = 2 THEN Num(0) ELSE Num(1)

MonthlyPrice(date) == Num(1 + (MonthOf(date) % MaxPrice))

RerunInit ==
    /\ PortfolioInit
    /\ Len(merged_df) >= 2
    /\ \A i \in 1..Len(merged_df) :
          /\ merged_df[i].return_diff = MonthlyDiff(merged_df[i].trade_date)
          /\ merged_df[i].hl_close = MonthlyPrice(merged_df[i].trade_date)

\* the caller assigns the strategy's parameters between two runs
SetParameters ==
    /\ pc = "done"
    /\ bt_ret = "lists"
    /\ Len(history) \in {1, 2}
    /\ IF Len(history) = 1
       THEN /\ \E t \in ThresholdPairs :
                  buy_threshold' = t[1] /\ sell_threshold' = t[2]
            /\ return_period' \in 1..MaxPeriod
       ELSE /\ buy_threshold' = history[1].buy_threshold
            /\ sell_threshold' = history[1].sell_threshold
            /\ UNCHANGED return_period
    /\ pc' = "configured"
    /\ UNCHANGED <<merged_df, ret, backtestVars, history, fetchVars, stats,
                   storeVars>>

\* run_backtest up to the loop, on a series that passes its guard: cash,
\* shares and the three lists are locals, set up by every call; held is
\* what the call starts its shares from
StartBacktest(initial, monthly, held) ==
    /\ initial_investment' = initial
    /\ monthly_investment' = monthly
    /\ cash' = initial
    /\ shares' = held
    /\ portfolio_value' = <<>>
    /\ benchmark_value' = <<>>
    /\ signals' = <<>>
    /\ checkpoint_dates' = <<>>
    /\ valid_data' = ValidData(merged_df)
    /\ investment_dates' =
          date_range(valid_data'[1].trade_date,
                     valid_data'[Len(valid_data')].trade_date)
    /\ pc' = "loop"
    /\ bt_ret' = "not_called"

\* a call that goes on from the shares the previous call ended with
RunBacktestAgain_carried ==
    /\ pc = "configured"
    /\ IF Len(history) = 1
       THEN \E initial \in Amounts, monthly \in Amounts :
               StartBacktest(Num(initial), Num(monthly), shares)
       ELSE StartBacktest(history[1].initial_investment,
                          history[1].monthly_investment, shares)
    /\ UNCHANGED <<strategyVars, merged_df, ret, history, fetchVars, stats,
                   storeVars>>

\* the next call of run_backtest on the same object and series
RunBacktestAgain ==
    /\ pc = "configured"
    /\ IF Len(history) = 1
       THEN \E initial \in Amounts, monthly \in Amounts :
               StartBacktest(Num(initial), Num(monthly), Num(0))
       ELSE StartBacktest(history[1].initial_investment,
                          history[1].monthly_investment, Num(0))
    /\ UNCHANGED <<strategyVars, merged_df, ret, history, fetchVars, stats,
                   storeVars>>

RerunNext ==
    \/ LoopSkip
    \/ LoopCheckpoint
    \/ LoopReturn
    \/ SetParameters
    \/ RunBacktestAgain

SpecRerun == RerunInit /\ [][RerunNext]_vars

(***************************************************************************)
(* Properties.                                                             *)
(***************************************************************************)
\* the row of valid_data read at the k-th executed checkpoint
CheckpointRow(k) == RowAt(valid_data, checkpoint_dates[k])

\* sig is the class the inclusive rule gives d
InclusiveRule(d, sig, buy, sell) ==
    /\ FLeq(d, buy) => sig = "BUY"
    /\ FGeq(d, sell) => sig = "SELL"
    /\ (~FLeq(d, buy) /\ ~FGeq(d, sell)) => sig = "HOLD"

\* C1: with buy_threshold < sell_threshold, diff <= buy_threshold gives BUY,
\* diff >= sell_threshold gives SELL and any other diff gives HOLD, for the
\* latest signal of calculate_return_diff and at every checkpoint of
\* run_backtest; a diff equal to a threshold takes the action.
C1_InclusiveThresholds ==
    FLt(buy_threshold, sell_threshold) =>
        /\ (ret.data_df /\ notna(ret.latest_diff[1])) =>
              InclusiveRule(ret.latest_diff[1], ret.signal,
                            buy_threshold, sell_threshold)
        /\ \A k \in 1..Len(signals) :
              InclusiveRule(CheckpointRow(k).return_diff, signals[k],
                            buy_threshold, sell_threshold)

\* a run whose latest diff sits on one threshold and one of whose
\* checkpoints sits on the other
C1_Witness ==
    /\ FLt(buy_threshold, sell_threshold)
    /\ ret.data_df
    /\ \E k \in 1..Len(signals) :
          \/ /\ ret.latest_diff[1] = buy_threshold /\ ret.signal = "BUY"
             /\ CheckpointRow(k).return_diff = sell_threshold
             /\ signals[k] = "SELL"
          \/ /\ ret.latest_diff[1] = sell_threshold /\ ret.signal = "SELL"
             /\ CheckpointRow(k).return_diff = buy_threshold
             /\ signals[k] = "BUY"

\* a step that executes a checkpoint
IsCheckpointStep == Len(signals') = Len(signals) + 1

\* C2: the portfolio starts at cash = initial_investment, shares = 0; a BUY
\* checkpoint moves 2 x monthly_investment from cash into shares at the
\* checkpoint's price, a HOLD checkpoint moves monthly_investment, a SELL
\* checkpoint sells min(monthly_investment / price, shares); the value
\* recorded is cash + shares x price after the trade.
C2_PortfolioUpdate ==
    [][ /\ (pc = "loop" /\ signals = <<>>) =>
              (cash = initial_investment /\ shares = Num(0))
        /\ IsCheckpointStep =>
              LET sig == signals'[Len(signals')]
                  price == RowAt(valid_data, Head(investment_dates)).hl_close
                  m == monthly_investment
                  m2 == FAdd(monthly_investment, monthly_investment)
                  sell_shares == IF FLt(shares, FDiv(m, price))
                                 THEN shares ELSE FDiv(m, price)
              IN  /\ sig \in {"BUY", "HOLD", "SELL"}
                  /\ sig = "BUY" =>
                        /\ shares' = FAdd(shares, FDiv(m2, price))
                        /\ cash' = FSub(cash, m2)
                  /\ sig = "HOLD" =>
                        /\ shares' = FAdd(shares, FDiv(m, price))
                        /\ cash' = FSub(cash, m)
                  /\ sig = "SELL" =>
                        /\ shares' = FSub(shares, sell_shares)
                        /\ cash' = FAdd(cash, FMul(sell_shares, price))
                  /\ portfolio_value'[Len(portfolio_value')] =
                        FAdd(cash', FMul(shares', price))
      ]_vars

\* a finished run that traded under all three signals with money at stake
C2_Witness ==
    /\ pc = "done"
    /\ FGt(monthly_investment, Num(0))
    /\ {signals[k] : k \in 1..Len(signals)} = {"BUY", "HOLD", "SELL"}

\* C3: shares never fall below zero, a SELL checkpoint sells at most what
\* is held, and a SELL with nothing held changes neither shares nor cash.
C3_SharesNeverNegative ==
    [][ /\ FGeq(shares, Num(0))
        /\ FGeq(shares', Num(0))
        /\ (IsCheckpointStep /\ signals'[Len(signals')] = "SELL") =>
              /\ FLeq(FSub(shares, shares'), shares)
              /\ FGeq(FSub(shares, shares'), Num(0))
              /\ shares = Num(0) => (shares' = Num(0) /\ cash' = cash)
      ]_vars

\* a SELL checkpoint that wanted more shares than were held: bought at a
\* higher price one month, asked to sell monthly_investment's worth at a
\* lower price the next
C3_Witness ==
    /\ Len(signals) = 2
    /\ signals[1] = "HOLD"
    /\ signals[2] = "SELL"
    /\ FGt(monthly_investment, Num(0))
    /\ FLt(CheckpointRow(2).hl_close, CheckpointRow(1).hl_close)
    /\ shares = Num(0)

\* C4: every recorded portfolio value is >= 0.
C4_ValueNeverNegative ==
    \A k \in 1..Len(portfolio_value) : FGeq(portfolio_value[k], Num(0))

\* C5: when the aligned series has fewer rows than return_period (also when
\* it is empty), calculate_return_diff returns None for the series, the
\* signal, the rationale and the diff, and computes nothing.
C5_InsufficientDataReturnsNone ==
    (pc # "start" /\ Len(merged_df) < return_period) =>
        /\ ~ret.data_df
        /\ ret.signal = "None"
        /\ ret.reason = "None"
        /\ ret.latest_diff = None

\* calculate_return_diff has returned on a non-empty series one row short
C5_Witness ==
    /\ pc = "analysed"
    /\ Len(merged_df) > 0
    /\ Len(merged_df) = return_period - 1
    /\ ret = NoReturn

\* C6: given no series or fewer than 100 rows, run_backtest returns
\* (None, None, None) and executes no checkpoint.
C6_BacktestRefusesShortSeries ==
    (~ret.data_df \/ Len(merged_df) < MinBacktestLen) =>
        /\ pc # "loop"
        /\ pc = "done" => bt_ret = "None"
        /\ portfolio_value = <<>>
        /\ benchmark_value = <<>>
        /\ signals = <<>>
        /\ checkpoint_dates = <<>>

\* run_backtest has refused a series of 99 rows that carries diffs
C6_Witness ==
    /\ pc = "done"
    /\ bt_ret = "None"
    /\ ret.data_df
    /\ Len(merged_df) = MinBacktestLen - 1
    /\ ValidData(merged_df) # <<>>

Max(S) == CHOOSE x \in S : \A y \in S : y <= x

\* C7: on success the returned latest_diff is a defined number, the last
\* row's diff or else the most recent defined diff or else 0 (HOLD when
\* buy_threshold < 0 < sell_threshold), and the signal is the class of that
\* number.
C7_LatestDiffDefined ==
    ret.data_df =>
        LET latest == ret.latest_diff[1]
            last == merged_df[Len(merged_df)].return_diff
            defined == {i \in 1..Len(merged_df) : notna(merged_df[i].return_diff)}
        IN  /\ notna(latest)
            /\ notna(last) => latest = last
            /\ (isna(last) /\ defined # {}) =>
                  latest = merged_df[Max(defined)].return_diff
            /\ defined = {} =>
                  /\ latest = Num(0)
                  /\ (FLt(buy_threshold, Num(0)) /\ FGt(sell_threshold, Num(0)))
                        => ret.signal = "HOLD"
            /\ ret.signal = LatestSignal(latest, buy_threshold, sell_threshold)

\* C8: after calculate_return_diff the first N rows carry no return and no
\* diff, every later row i carries price[i] / price[i-N] - 1 for each
\* instrument and their difference, so exactly L - N rows carry a diff.
C8_ReturnsDefinedAfterWindow ==
    ret.data_df =>
        LET L == Len(merged_df)
            N == return_period
        IN  /\ \A i \in 1..L :
                  LET r == merged_df[i]
                  IN  IF i <= N
                      THEN /\ isna(r.hl_return_nd)
                           /\ isna(r.benchmark_return_nd)
                           /\ isna(r.return_diff)
                      ELSE LET p == merged_df[i - N]
                               a == r.hl_return_nd
                               b == r.benchmark_return_nd
                               d == r.return_diff
                           IN  /\ notna(a) /\ notna(b) /\ notna(d)
                               \* (a + 1) * hl[i-N] = hl[i]
                               /\ (a.num + a.den) * p.hl_close.num * r.hl_close.den
                                     = r.hl_close.num * p.hl_close.den * a.den
                               /\ (b.num + b.den) * p.benchmark_close.num
                                                  * r.benchmark_close.den
                                     = r.benchmark_close.num
                                          * p.benchmark_close.den * b.den
                               \* d = a - b
                               /\ d.num * a.den * b.den
                                     = (a.num * b.den - b.num * a.den) * d.den
            /\ Cardinality({i \in 1..L : notna(merged_df[i].return_diff)}) = L - N

\* a series longer than the window with a non-zero diff
C8_Witness ==
    /\ ret.data_df
    /\ Len(merged_df) > return_period
    /\ return_period > 1
    /\ \E i \in 1..Len(merged_df) :
          /\ notna(merged_df[i].return_diff)
          /\ merged_df[i].return_diff # Num(0)

\* C9 as stated: the benchmark value of a checkpoint is initial_investment
\* scaled by the benchmark price relative to the first checkpoint's, hence
\* initial_investment at the first checkpoint.
C9_BenchmarkFromFirstCheckpoint ==
    \A k \in 1..Len(benchmark_value) :
        benchmark_value[k] =
            FMul(initial_investment,
                 FDiv(CheckpointRow(k).benchmark_close,
                      CheckpointRow(1).benchmark_close))

\* C9 amended: the benchmark value of a checkpoint is initial_investment
\* scaled by the benchmark price relative to the first row that carries a
\* diff; it takes no contribution, and the values of two checkpoints are in
\* the ratio of their benchmark prices.
C9_BenchmarkFromFirstValidRow ==
    LET base == ValidData(merged_df)[1].benchmark_close
    IN  /\ \A k \in 1..Len(benchmark_value) :
              LET v == benchmark_value[k]
                  b == CheckpointRow(k).benchmark_close
              IN  /\ notna(v)
                  /\ v.num * base.num * b.den * initial_investment.den
                        = initial_investment.num * b.num * base.den * v.den
        /\ \A j, k \in 1..Len(benchmark_value) :
              FMul(benchmark_value[j], CheckpointRow(k).benchmark_close)
                 = FMul(benchmark_value[k], CheckpointRow(j).benchmark_close)
        /\ (Len(benchmark_value) >= 1
              /\ checkpoint_dates[1] = ValidData(merged_df)[1].trade_date) =>
              benchmark_value[1] = initial_investment

\* two checkpoints with different benchmark values, the first of them not
\* worth initial_investment
C9_Witness ==
    /\ bt_ret = "lists"
    /\ Len(benchmark_value) >= 2
    /\ FGt(initial_investment, Num(0))
    /\ benchmark_value[1] # initial_investment
    /\ benchmark_value[1] # benchmark_value[2]

\* the month-end dates that are dates of rows carrying a diff
ExpectedCheckpoints ==
    {merged_df[i].trade_date :
        i \in {j \in 1..Len(merged_df) :
                  /\ notna(merged_df[j].return_diff)
                  /\ IsMonthEnd(merged_df[j].trade_date)}}

\* C10: the checkpoints are exactly the month-end dates that are dates of
\* rows carrying a diff, each executed once, in increasing date order, at
\* most one per calendar month; a month-end date that is no such date is
\* passed over without touching cash or shares.
C10_OneCheckpointPerMonthEnd ==
    /\ [](/\ \A k \in 1..Len(checkpoint_dates) :
                checkpoint_dates[k] \in ExpectedCheckpoints
          /\ \A j, k \in 1..Len(checkpoint_dates) :
                j < k => /\ checkpoint_dates[j] < checkpoint_dates[k]
                         /\ MonthOf(checkpoint_dates[j]) < MonthOf(checkpoint_dates[k])
          /\ Len(signals) = Len(checkpoint_dates)
          /\ Len(portfolio_value) = Len(checkpoint_dates)
          /\ Len(benchmark_value) = Len(checkpoint_dates)
          /\ bt_ret = "lists" =>
                {checkpoint_dates[k] : k \in 1..Len(checkpoint_dates)}
                    = ExpectedCheckpoints)
    /\ [][(pc = "loop" /\ investment_dates # <<>>
             /\ investment_dates' = Tail(investment_dates)
             /\ Head(investment_dates) \notin ExpectedCheckpoints) =>
                (cash' = cash /\ shares' = shares /\ signals' = signals
                   /\ checkpoint_dates' = checkpoint_dates)]_vars

\* a finished run with several checkpoints that passed over a month-end
\* date on which there was no row
C10_Witness ==
    /\ bt_ret = "lists"
    /\ Len(checkpoint_dates) >= 2
    /\ \E d \in checkpoint_dates[1]..checkpoint_dates[Len(checkpoint_dates)] :
          IsMonthEnd(d) /\ d \notin ExpectedCheckpoints

\* what a finished run was given
RunInputs(h) == <<h.data_df, h.initial_investment, h.monthly_investment,
                 h.buy_threshold, h.sell_threshold>>

\* what a finished run returned
RunOutputs(h) == <<h.portfolio_value, h.benchmark_value, h.signals>>

\* C11: run_backtest is a pure function of the series, the two amounts and
\* the two thresholds: two finished runs that were given the same of these
\* returned the same three lists, whatever ran in between, and no step of a
\* run changes the series or the strategy's parameters.
C11_BacktestIsPure ==
    /\ [](\A i, j \in 1..Len(history) :
             RunInputs(history[i]) = RunInputs(history[j]) =>
                RunOutputs(history[i]) = RunOutputs(history[j]))
    /\ [][pc = "loop" =>
             /\ merged_df' = merged_df
             /\ return_period' = return_period
             /\ buy_threshold' = buy_threshold
             /\ sell_threshold' = sell_threshold]_vars

\* three finished runs that traded: the third was given what the first was
\* given, the second other thresholds, and the second returned other lists
C11_Witness ==
    /\ Len(history) = 3
    /\ RunInputs(history[1]) = RunInputs(history[3])
    /\ history[2].buy_threshold # history[1].buy_threshold
    /\ history[2].signals # history[1].signals
    /\ history[2].portfolio_value # history[1].portfolio_value
    /\ FGt(history[1].monthly_investment, Num(0))
    /\ Len(history[1].signals) >= 2

\* the order of the classes: BUY < HOLD < SELL
ClassRank(sig) == IF sig = "BUY" THEN 1 ELSE IF sig = "HOLD" THEN 2 ELSE 3

\* C12: with buy_threshold < sell_threshold the class is a monotone step
\* function of the diff: of two classified diffs, at the checkpoints of
\* run_backtest or as the latest diff of calculate_return_diff, the smaller
\* never gets the higher class in the order BUY < HOLD < SELL.
C12_ClassificationMonotone ==
    FLt(buy_threshold, sell_threshold) =>
        /\ \A j, k \in 1..Len(signals) :
              FLt(CheckpointRow(j).return_diff, CheckpointRow(k).return_diff) =>
                 ClassRank(signals[j]) <= ClassRank(signals[k])
        /\ ret.data_df =>
              \A k \in 1..Len(signals) :
                 /\ FLt(ret.latest_diff[1], CheckpointRow(k).return_diff) =>
                       ClassRank(ret.signal) <= ClassRank(signals[k])
                 /\ FLt(CheckpointRow(k).return_diff, ret.latest_diff[1]) =>
                       ClassRank(signals[k]) <= ClassRank(ret.signal)

\* three checkpoints of increasing diff classified BUY, HOLD, SELL, the
\* latest signal agreeing with the highest
C12_Witness ==
    /\ FLt(buy_threshold, sell_threshold)
    /\ \E j, k, l \in 1..Len(signals) :
          /\ FLt(CheckpointRow(j).return_diff, CheckpointRow(k).return_diff)
          /\ FLt(CheckpointRow(k).return_diff, CheckpointRow(l).return_diff)
          /\ signals[j] = "BUY" /\ signals[k] = "HOLD" /\ signals[l] = "SELL"
          /\ ret.signal = signals[l]

\* the dates on which a delivered frame has a row with a numeric price
NumericDates(df) ==
    {df[i].trade_date : i \in {j \in 1..Len(df) : df[j].close.kind = "float"}}

Merged == pc \notin {"fetch", "merge"}

\* C13: the aligned series has a row for a date exactly when both delivered
\* frames have a row of that date with a numeric price; a row whose price is
\* text or missing counts as absent, not as a price of zero; the prices of
\* an aligned row are prices the frames give for its date.
C13_AlignedIsInnerJoin ==
    Merged =>
        /\ {merged_df[i].trade_date : i \in 1..Len(merged_df)}
              = NumericDates(hl_df) \cap NumericDates(benchmark_df)
        /\ \A i \in 1..Len(merged_df) :
              LET r == merged_df[i]
              IN  /\ \E j \in 1..Len(hl_df) :
                        /\ hl_df[j].trade_date = r.trade_date
                        /\ hl_df[j].close = [kind |-> "float", val |-> r.hl_close]
                  /\ \E j \in 1..Len(benchmark_df) :
                        /\ benchmark_df[j].trade_date = r.trade_date
                        /\ benchmark_df[j].close
                              = [kind |-> "float", val |-> r.benchmark_close]
                  /\ FGt(r.hl_close, Num(0))
                  /\ FGt(r.benchmark_close, Num(0))

\* an aligned series was returned that kept one date and dropped another:
\* one whose price is text on one side, or missing on the other
C13_Witness ==
    /\ ret.data_df
    /\ Len(merged_df) = 1
    /\ Len(hl_df) = 2 /\ Len(benchmark_df) = 2
    /\ \/ \E j \in 1..2 : hl_df[j].close.kind = "str"
       \/ \E j \in 1..2 : benchmark_df[j].close.kind = "none"
    /\ hl_df[1].trade_date # hl_df[2].trade_date
    /\ benchmark_df[1].trade_date # benchmark_df[2].trade_date

\* C14: the aligned series has strictly increasing dates and two numeric
\* prices in every row, whatever frames the providers delivered.
C14_AlignedInvariant ==
    Merged =>
        /\ \A i, j \in 1..Len(merged_df) :
              i < j => merged_df[i].trade_date < merged_df[j].trade_date
        /\ \A i \in 1..Len(merged_df) :
              notna(merged_df[i].hl_close) /\ notna(merged_df[i].benchmark_close)

\* the sum of the counts of a value_counts result
RECURSIVE SumCounts(_, _)
SumCounts(counts, classes) ==
    IF classes = {} THEN 0
    ELSE LET c == CHOOSE x \in classes : TRUE
         IN  counts[c] + SumCounts(counts, classes \ {c})

\* C15: over the rows with a defined diff, the per-class counts sum to the
\* number of those rows, and the reported run length of the current signal
\* is the number of consecutive rows, from the last one back, whose class is
\* that of the last row; it is at least 1 and at most the number of rows.
C15_SignalStatistics ==
    stats.outcome = "printed" =>
        LET valid == ValidData(merged_df)
            L == Len(valid)
            n == stats.consecutive_days
            class(i) == StatSignal(valid[i].return_diff, buy_threshold,
                                   sell_threshold)
        IN  /\ SumCounts(stats.counts, DOMAIN stats.counts) = L
            /\ \A c \in DOMAIN stats.counts :
                  stats.counts[c] = Cardinality({i \in 1..L : class(i) = c})
            /\ stats.current_signal = class(L)
            /\ n >= 1 /\ n <= L
            /\ \A i \in (L - n + 1)..L : class(i) = class(L)
            /\ n < L => class(L - n) # class(L)

\* statistics over a series whose current run is longer than one row and
\* whose current class also occurs before the run
C15_Witness ==
    /\ stats.outcome = "printed"
    /\ stats.consecutive_days >= 2
    /\ stats.counts[stats.current_signal] > stats.consecutive_days
    /\ Cardinality(DOMAIN stats.counts) = 3

\* C16: after FlatMonths checkpoints, all HOLD, at the flat price 1, with
\* initial_investment = 10000 and monthly_investment = 1000, the final cash
\* is initial_investment + FlatMonths x 1000 less the FlatMonths x 1000
\* converted to shares, and the final portfolio value is the contributed
\* total initial_investment + FlatMonths x 1000.
C16_FlatScenario ==
    ( /\ bt_ret = "lists"
      /\ Len(signals) = FlatMonths
      /\ \A k \in 1..Len(signals) :
            signals[k] = "HOLD" /\ CheckpointRow(k).hl_close = Num(1)
      /\ initial_investment = Num(DefaultInitialInvestment)
      /\ monthly_investment = Num(DefaultMonthlyInvestment) ) =>
        LET contributed == FlatMonths * DefaultMonthlyInvestment
        IN  /\ cash = Num(DefaultInitialInvestment + contributed - contributed)
            /\ portfolio_value[FlatMonths]
                  = Num(DefaultInitialInvestment + contributed)

\* C17: signals are only ever produced under a validated configuration:
\* buy_threshold < sell_threshold, buy_threshold <= 0 < sell_threshold and
\* return_period > 0.
C17_ThresholdsValidated ==
    ((ret.data_df /\ ret.signal \in {"BUY", "HOLD", "SELL"}) \/ signals # <<>>) =>
        /\ FLt(buy_threshold, sell_threshold)
        /\ FLeq(buy_threshold, Num(0))
        /\ FGt(sell_threshold, Num(0))
        /\ return_period > 0

\* no two rows of the table have the same (code, date)
UniqueKeys(table) ==
    \A r1, r2 \in table : (r1.code = r2.code /\ r1.date = r2.date) => r1 = r2

\* C18: the daily price store is append-only and keyed by (code, date): no
\* operation removes a stored row or changes its values, and no table ever
\* holds two rows of one key.
C18_StoreAppendOnly ==
    /\ [](UniqueKeys(main_db) /\ UniqueKeys(update_db))
    /\ [][main_db \subseteq main_db' /\ update_db \subseteq update_db']_vars

\* C19: on a series of at least 100 rows run_backtest ends by returning the
\* three lists or the insufficient-data result, never with an unhandled
\* error, also when no row has a diff or no month end falls on a row.
C19_BacktestNoUnhandledError ==
    (ret.data_df /\ Len(merged_df) >= MinBacktestLen /\ pc = "done") =>
        bt_ret \in {"lists", "None"}

\* C20: the trade of a checkpoint is value-neutral at the checkpoint's
\* price: cash + shares x price is the same before and after it; a BUY or a
\* HOLD only turns cash into shares, a SELL only shares into cash; nothing
\* is contributed from outside, so cash may fall below zero.
C20_TradeValueNeutral ==
    [][IsCheckpointStep =>
          LET sig == signals'[Len(signals')]
              price == RowAt(valid_data, Head(investment_dates)).hl_close
          IN  /\ FAdd(cash', FMul(shares', price))
                    = FAdd(cash, FMul(shares, price))
              /\ portfolio_value'[Len(portfolio_value')]
                    = FAdd(cash, FMul(shares, price))
              /\ sig \in {"BUY", "HOLD"} =>
                    /\ FLeq(cash', cash)
                    /\ FGeq(shares', shares)
                    /\ FSub(cash, cash') = FMul(FSub(shares', shares), price)
              /\ sig = "SELL" =>
                    /\ FGeq(cash', cash)
                    /\ FLeq(shares', shares)
                    /\ FSub(cash', cash) = FMul(FSub(shares, shares'), price)
      ]_vars

\* a purchase has taken cash below zero and a later sale has brought some
\* of it back at another price
C20_Witness ==
    /\ Len(signals) >= 2
    /\ signals[Len(signals)] = "SELL"
    /\ signals[Len(signals) - 1] = "BUY"
    /\ CheckpointRow(Len(signals)).hl_close
          # CheckpointRow(Len(signals) - 1).hl_close
    /\ FLt(cash, Num(0))
    /\ FGt(shares, Num(0))

\* the label show_signal_statistics gave the row of a date
StatLabel(date) ==
    stats.signal[Min({i \in 1..Len(stats.signal) :
                        ValidData(merged_df)[i].trade_date = date})]

\* C21: the three classification sites agree, whatever the thresholds: the
\* latest signal of calculate_return_diff and the label of
\* show_signal_statistics for the last row's diff are the same class, and
\* the signal of every checkpoint of run_backtest is the label
\* show_signal_statistics gave that row.
C21_SitesAgree ==
    stats.outcome = "printed" =>
        /\ (ret.data_df /\ notna(merged_df[Len(merged_df)].return_diff)) =>
              stats.current_signal = ret.signal
        /\ \A k \in 1..Len(signals) :
              signals[k] = StatLabel(checkpoint_dates[k])

\* the calls made for one fund, in order
CallsOf(fund_code) == SelectSeq(calls, LAMBDA c : c.fund_code = fund_code)

ProviderOrder == <<"adata", "akshare", "sample">>

\* the request for fund_code, which returned df, went down the providers in
\* order, each asked once and only after the one before it had failed
RequestInOrder(fund_code, df) ==
    LET made == CallsOf(fund_code)
        n == Len(made)
    IN  /\ n \in 1..Len(ProviderOrder)
        /\ \A i \in 1..n : made[i].provider = ProviderOrder[i]
        /\ n >= 2 <=> (made[1].error \/ made[1].rows < return_period)
        /\ n >= 3 <=> (n >= 2 /\ made[2].error)
        /\ ~made[n].error
        /\ Len(df) = made[n].rows

\* C22: a get_etf_data request consults adata, then akshare, then the sample
\* generator: akshare only after adata raised or returned fewer than
\* return_period rows, the generator only after akshare raised, each at most
\* once, and the request ends by returning a frame.
C22_ProviderFallbackOrder ==
    pc # "fetch" =>
        /\ RequestInOrder("515450", hl_df)
        /\ RequestInOrder("510210", benchmark_df)

\* one request went down to the sample generator after a short answer of
\* adata, the other was served by akshare after adata raised
C22_Witness ==
    /\ pc = "merge"
    /\ Len(CallsOf("515450")) = 3
    /\ ~CallsOf("515450")[1].error
    /\ Len(CallsOf("510210")) = 2
    /\ CallsOf("510210")[1].error
    /\ Len(benchmark_df) > 0

=============================================================================
